---- MODULE Spec2Model ----
(***************************************************************************)
(* Model of hw2_q2.py: the pure function meetup(agent_listing) with its    *)
(* helpers _improve and _worsen, and a caller that applies meetup to a     *)
(* listing and may feed the returned listing back into the next call.      *)
(*                                                                         *)
(* An Agent (namedtuple, line 6) is a record [name, category].  A category *)
(* is a string naming a member of the Condition enum (line 5); "OTHER"     *)
(* stands for any value that is not a member of the enum (the namedtuple   *)
(* does not type its fields).                                              *)
(***************************************************************************)
EXTENDS Integers, Sequences, FiniteSets

VARIABLES agent_listing,    \* argument of the current / next call of meetup
          to_meet,          \* local of the latest call (line 54)
          untouched,        \* local of the latest call (line 59)
          result,           \* local of the latest call (line 64)
          updated_listing,  \* value returned by the latest call (line 88)
          pc                \* "ready": a call is pending; "returned": it returned

vars == <<agent_listing, to_meet, untouched, result, updated_listing, pc>>

(***************************************************************************)
(* Bounds of the model.                                                    *)
(***************************************************************************)
MaxLen == 4

MaxLenRounds == 5

(***************************************************************************)
(* Data model.                                                             *)
(***************************************************************************)
Condition == {"CURE", "HEALTHY", "SICK", "DYING", "DEAD"}

NotACondition == "OTHER"

Agent(n, c) == [name |-> n, category |-> c]

\* Names are opaque strings that meetup never inspects.
NamePool == <<"a", "b", "c", "d", "e", "f", "g">>

(***************************************************************************)
(* The helpers.                                                            *)
(***************************************************************************)
improve_cascade(cat) ==
    IF cat = "DYING" THEN "HEALTHY"
    ELSE IF cat = "SICK" THEN "HEALTHY"
    ELSE cat

_improve(cat) ==
    IF cat = "DYING" THEN "SICK"
    ELSE IF cat = "SICK" THEN "HEALTHY"
    ELSE cat

worsen_cascade(cat) ==
    IF cat = "SICK" THEN "DEAD"
    ELSE IF cat = "DYING" THEN "DEAD"
    ELSE cat

worsen_wraps(cat) ==
    IF cat = "SICK" THEN "DYING"
    ELSE IF cat = "DYING" THEN "SICK"
    ELSE cat

_worsen(cat) ==
    IF cat = "SICK" THEN "DYING"
    ELSE IF cat = "DYING" THEN "DEAD"
    ELSE cat

\* namedtuple._replace(category = c)
Replace(a, c) == [a EXCEPT !.category = c]

(***************************************************************************)
(* meetup, step by step.                                                   *)
(***************************************************************************)
Meets(a) == a.category \notin {"HEALTHY", "DEAD"}

Stays(a) == a.category \in {"HEALTHY", "DEAD"}

ToMeetKeepsDead(listing) ==
    SelectSeq(listing, LAMBDA a : a.category \notin {"HEALTHY"})

\* 1) Separate out those who actually meet
ToMeet(listing) == SelectSeq(listing, Meets)

UntouchedDropsDead(listing) ==
    SelectSeq(listing, LAMBDA a : a.category \in {"HEALTHY"})

\* 2) Keep healthy & dead around unchanged
Untouched(listing) == SelectSeq(listing, Stays)

PairRuleSwapped(a, b) ==
    IF a.category = "CURE" /\ b.category # "CURE"
      THEN <<Replace(b, _improve(b.category)), a>>
    ELSE IF b.category = "CURE" /\ a.category # "CURE"
      THEN <<b, Replace(a, _improve(a.category))>>
    ELSE IF a.category = "CURE" /\ b.category = "CURE"
      THEN <<b, a>>
    ELSE <<Replace(b, _worsen(b.category)), Replace(a, _worsen(a.category))>>

\* The body of the loop for a full pair: <<new_a, new_b>>
PairRule(a, b) ==
    IF a.category = "CURE" /\ b.category # "CURE"
      THEN <<a, Replace(b, _improve(b.category))>>
    ELSE IF b.category = "CURE" /\ a.category # "CURE"
      THEN <<Replace(a, _improve(a.category)), b>>
    ELSE IF a.category = "CURE" /\ b.category = "CURE"
      THEN <<a, b>>
    ELSE <<Replace(a, _worsen(a.category)), Replace(b, _worsen(b.category))>>

RECURSIVE PairOffOddWorsens(_, _)
PairOffOddWorsens(tm, i) ==
    IF i > Len(tm) THEN << >>
    ELSE IF i = Len(tm) THEN <<Replace(tm[i], _worsen(tm[i].category))>>
    ELSE PairRule(tm[i], tm[i + 1]) \o PairOffOddWorsens(tm, i + 2)

\* 3) The loop over zip_longest(*[iter(to_meet)]*2, fillvalue=None), from
\*    the element at index i on: two elements are consumed per iteration and
\*    the last one comes with b = None when the length is odd.
RECURSIVE PairOff(_, _)
PairOff(tm, i) ==
    IF i > Len(tm) THEN << >>
    ELSE IF i = Len(tm) THEN <<tm[i]>>
    ELSE PairRule(tm[i], tm[i + 1]) \o PairOff(tm, i + 2)

MeetupResultFirst(listing) == PairOff(ToMeet(listing), 1) \o Untouched(listing)

\* 4) Return all agents
Meetup(listing) == Untouched(listing) \o PairOff(ToMeet(listing), 1)

(***************************************************************************)
(* Inputs.  A listing of n agents takes its categories from cats and its   *)
(* names from NamePool; as meetup never inspects a name, one listing per   *)
(* pattern of equal names is enumerated (the first agent is named "a" and  *)
(* each later agent has a name already used or the next unused one).       *)
(***************************************************************************)
NamePatterns(n) ==
    {s \in [1..n -> 1..n] :
        \A i \in 1..n :
            \/ s[i] = 1
            \/ \E j \in 1..(i - 1) : s[j] = s[i] - 1}

\* IsListing(l, cats, max): l is a listing of at most max agents with
\* categories from cats, one listing per pattern of equal names.
IsListing(l, cats, max) ==
    \E n \in 0..max :
        \E s \in NamePatterns(n), c \in [1..n -> cats] :
            l = [i \in 1..n |-> Agent(NamePool[s[i]], c[i])]

\* The same with pairwise distinct names.
IsDistinctListing(l, cats, max) ==
    \E n \in 0..max :
        \E c \in [1..n -> cats] :
            l = [i \in 1..n |-> Agent(NamePool[i], c[i])]

Init ==
    /\ IsListing(agent_listing, Condition, MaxLen)
    /\ to_meet = << >>
    /\ untouched = << >>
    /\ result = << >>
    /\ updated_listing = << >>
    /\ pc = "ready"

InitAnyCategory ==
    /\ IsDistinctListing(agent_listing, Condition \cup {NotACondition}, MaxLen)
    /\ to_meet = << >>
    /\ untouched = << >>
    /\ result = << >>
    /\ updated_listing = << >>
    /\ pc = "ready"

(***************************************************************************)
(* Actions.                                                                *)
(***************************************************************************)
\* One call meetup(agent_listing), from entry to return.
Call ==
    /\ pc = "ready"
    /\ to_meet' = ToMeet(agent_listing)
    /\ untouched' = Untouched(agent_listing)
    /\ result' = PairOff(ToMeet(agent_listing), 1)
    /\ updated_listing' = Meetup(agent_listing)
    /\ pc' = "returned"
    /\ UNCHANGED agent_listing

\* The caller passes the returned listing to the next call.
Reapply ==
    /\ pc = "returned"
    /\ agent_listing' = updated_listing
    /\ pc' = "ready"
    /\ UNCHANGED <<to_meet, untouched, result, updated_listing>>

Next == Call \/ Reapply

Spec == Init /\ [][Next]_vars

SpecAnyCategory == InitAnyCategory /\ [][Next]_vars

InitRounds ==
    /\ IsDistinctListing(agent_listing, Condition, MaxLenRounds)
    /\ to_meet = << >>
    /\ untouched = << >>
    /\ result = << >>
    /\ updated_listing = << >>
    /\ pc = "ready"

\* The caller keeps calling: no call and no hand-over is postponed forever.
SpecRounds == InitRounds /\ [][Next]_vars /\ WF_vars(Call) /\ WF_vars(Reapply)

(***************************************************************************)
(* Vocabulary of the properties.                                           *)
(***************************************************************************)
Returned == pc = "returned"

Eligible(a) == a.category \in {"CURE", "SICK", "DYING"}

Exempt(a) == a.category \in {"HEALTHY", "DEAD"}

EligibleOf(l) == SelectSeq(l, Eligible)

ExemptOf(l) == SelectSeq(l, Exempt)

NamesOf(l) == [i \in DOMAIN l |-> l[i].name]

CategoriesOf(l) == [i \in DOMAIN l |-> l[i].category]

NamesDistinct(l) == \A i, j \in DOMAIN l : l[i].name = l[j].name => i = j

\* Number of occurrences of the name n / of the agent a in the listing l.
NameCount(l, n) == Cardinality({i \in DOMAIN l : l[i].name = n})

AgentCount(l, a) == Cardinality({i \in DOMAIN l : l[i] = a})

\* Category of the agent named n in a listing with distinct names.
CategoryOf(l, n) == l[CHOOSE i \in DOMAIN l : l[i].name = n].category

\* Position of the partner of the eligible agent at position i (from 1).
Partner(i) == IF i % 2 = 1 THEN i + 1 ELSE i - 1

\* The rule table: new category of an agent of category c that meets an
\* agent of category p, both eligible.
Table(c, p) ==
    IF c = "CURE" THEN "CURE"
    ELSE IF p = "CURE" THEN (IF c = "SICK" THEN "HEALTHY" ELSE "SICK")
    ELSE (IF c = "SICK" THEN "DYING" ELSE "DEAD")

\* The eligible agents of the argument, and the returned agent that stands
\* where the i-th of them is emitted.
InEligible == EligibleOf(agent_listing)

OutEligible(i) ==
    updated_listing[Len(agent_listing) - Len(InEligible) + i]

SameLength == Len(updated_listing) = Len(agent_listing)

(***************************************************************************)
(* C1: meetup returns a listing of the length of its argument with the     *)
(* same multiset of names; the empty listing yields the empty listing.     *)
(***************************************************************************)
C1_Conservation ==
    Returned =>
        /\ SameLength
        /\ \A i \in 1..Len(NamePool) :
              NameCount(updated_listing, NamePool[i])
                  = NameCount(agent_listing, NamePool[i])
        /\ \A i \in DOMAIN updated_listing :
              \E j \in DOMAIN agent_listing :
                  updated_listing[i].name = agent_listing[j].name
        /\ (agent_listing = << >> => updated_listing = << >>)

C1_Witness ==
    /\ Returned
    /\ Len(agent_listing) = 3
    /\ ~NamesDistinct(agent_listing)
    /\ \E i \in DOMAIN agent_listing : agent_listing[i].category = "DEAD"
    /\ Len(InEligible) = 2
    /\ CategoriesOf(updated_listing) # CategoriesOf(agent_listing)

(***************************************************************************)
(* C2: in a pair of eligible agents (positions 2k, 2k+1) that contains a   *)
(* CURE, the partner of the CURE improves by one step (SICK to HEALTHY,    *)
(* DYING to SICK, CURE stays CURE), in either order; and an agent of       *)
(* category CURE is returned with category CURE, paired or not.            *)
(***************************************************************************)
C2_CurePairing ==
    Returned =>
        /\ SameLength
        /\ \A i \in 1..Len(InEligible) :
              LET a == InEligible[i] IN
              /\ a.category = "CURE" => OutEligible(i) = a
              /\ Partner(i) <= Len(InEligible)
                   /\ InEligible[Partner(i)].category = "CURE"
                   => /\ OutEligible(i).name = a.name
                      /\ a.category = "SICK"
                           => OutEligible(i).category = "HEALTHY"
                      /\ a.category = "DYING"
                           => OutEligible(i).category = "SICK"
                      /\ a.category = "CURE"
                           => OutEligible(i).category = "CURE"

C2_Witness ==
    /\ Returned
    /\ Len(InEligible) >= 4
    /\ InEligible[1].category = "DYING"
    /\ InEligible[2].category = "CURE"
    /\ InEligible[3].category = "CURE"
    /\ InEligible[4].category = "SICK"
    /\ OutEligible(1).category = "SICK"
    /\ OutEligible(4).category = "HEALTHY"

(***************************************************************************)
(* C3: in a pair of eligible agents with no CURE, each of the two worsens  *)
(* by one step on its own (SICK to DYING, DYING to DEAD); no SICK agent is *)
(* returned DEAD and no DYING agent is returned HEALTHY.                   *)
(***************************************************************************)
C3_BothWorsen ==
    Returned =>
        /\ SameLength
        /\ \A i \in 1..Len(InEligible) :
              LET a == InEligible[i] IN
              /\ a.category = "SICK" => OutEligible(i).category # "DEAD"
              /\ a.category = "DYING" => OutEligible(i).category # "HEALTHY"
              /\ Partner(i) <= Len(InEligible)
                   /\ a.category # "CURE"
                   /\ InEligible[Partner(i)].category # "CURE"
                   => /\ OutEligible(i).name = a.name
                      /\ a.category = "SICK"
                           => OutEligible(i).category = "DYING"
                      /\ a.category = "DYING"
                           => OutEligible(i).category = "DEAD"

C3_Witness ==
    /\ Returned
    /\ Len(InEligible) >= 2
    /\ InEligible[1].category = "SICK"
    /\ InEligible[2].category = "DYING"
    /\ OutEligible(1).category = "DYING"
    /\ OutEligible(2).category = "DEAD"

(***************************************************************************)
(* C4: every agent of category HEALTHY or DEAD is returned with its name   *)
(* and category (as often as it occurs in the argument), and no such agent *)
(* is among the agents that are paired off.                                *)
(***************************************************************************)
C4_ExemptUnchanged ==
    Returned =>
        /\ \A i \in DOMAIN agent_listing :
              Exempt(agent_listing[i]) =>
                  AgentCount(updated_listing, agent_listing[i])
                      >= AgentCount(agent_listing, agent_listing[i])
        /\ \A i \in DOMAIN to_meet : ~Exempt(to_meet[i])
        /\ Len(to_meet) = Len(InEligible)
        /\ SameLength

C4_Witness ==
    /\ Returned
    /\ Len(agent_listing) >= 3
    /\ agent_listing[1].category = "SICK"
    /\ agent_listing[2].category = "DEAD"
    /\ agent_listing[3].category = "SICK"
    /\ updated_listing[1] = agent_listing[2]

(***************************************************************************)
(* C5: the returned listing is the exempt agents in their order, followed  *)
(* by the eligible agents in their order with the categories of the rule   *)
(* table, the unpaired last one as it was.                                 *)
(***************************************************************************)
Expected(l) ==
    LET ex == ExemptOf(l)
        el == EligibleOf(l)
        new(i) == IF Partner(i) > Len(el) THEN el[i].category
                  ELSE Table(el[i].category, el[Partner(i)].category)
    IN  ex \o [i \in 1..Len(el) |-> Agent(el[i].name, new(i))]

Scenario ==
    <<Agent("a", "SICK"), Agent("b", "DYING"),
      Agent("c", "HEALTHY"), Agent("d", "CURE")>>

ScenarioOutput ==
    <<Agent("c", "HEALTHY"), Agent("a", "DYING"),
      Agent("b", "DEAD"), Agent("d", "CURE")>>

C5_OutputLayout ==
    /\ Returned => updated_listing = Expected(agent_listing)
    /\ Returned /\ agent_listing = Scenario => updated_listing = ScenarioOutput

C5_Witness ==
    /\ Returned
    /\ agent_listing = Scenario
    /\ updated_listing = ScenarioOutput

(***************************************************************************)
(* C6: with an odd number of eligible agents the last eligible agent is    *)
(* returned as it was; with an even number every eligible agent is in a    *)
(* pair (so every eligible agent that is not a CURE changes category).     *)
(***************************************************************************)
C6_OddOneOut ==
    Returned =>
        /\ SameLength
        /\ Len(InEligible) % 2 = 1 =>
              updated_listing[Len(updated_listing)]
                  = InEligible[Len(InEligible)]
        /\ Len(InEligible) % 2 = 0 =>
              \A i \in 1..Len(InEligible) :
                  /\ Len(result) >= i
                  /\ result[i].category
                        = Table(InEligible[i].category,
                                InEligible[Partner(i)].category)
                  /\ InEligible[i].category # "CURE"
                        => OutEligible(i).category # InEligible[i].category

C6_Witness ==
    /\ Returned
    /\ Len(InEligible) = 3
    /\ InEligible[3].category = "DYING"
    /\ agent_listing[Len(agent_listing)].category = "HEALTHY"
    /\ updated_listing[Len(updated_listing)] = InEligible[3]

(***************************************************************************)
(* C7: a call with an agent whose category is not a Condition does not     *)
(* return a listing (it fails).                                            *)
(***************************************************************************)
HasInvalidCategory(l) == \E i \in DOMAIN l : l[i].category \notin Condition

C7_InvalidCategoryFails == HasInvalidCategory(agent_listing) => ~Returned

(***************************************************************************)
(* C8: the pairs are (a[0], a[1]), (a[2], a[3]), ... of the argument a,    *)
(* and the last agent of an argument of odd length is returned with its    *)
(* category.  (Stated for arguments with distinct names, where the agent   *)
(* is found by its name.)                                                  *)
(***************************************************************************)
C8_PairsOfTheListing ==
    Returned /\ NamesDistinct(agent_listing) =>
        LET n == Len(agent_listing) IN
        /\ n % 2 = 1 =>
              CategoryOf(updated_listing, agent_listing[n].name)
                  = agent_listing[n].category
        /\ \A i \in 1..n :
              Partner(i) <= n /\ Eligible(agent_listing[i])
                              /\ Eligible(agent_listing[Partner(i)]) =>
                  CategoryOf(updated_listing, agent_listing[i].name)
                      = Table(agent_listing[i].category,
                              agent_listing[Partner(i)].category)

(***************************************************************************)
(* C9: repeated application reaches a listing L with meetup(L) = L, and    *)
(* in such a listing every pair of consecutive eligible agents is          *)
(* (CURE, CURE), with at most one unpaired eligible agent left.            *)
(***************************************************************************)
Stable == Returned /\ updated_listing = agent_listing

AllPairsCure(l) ==
    LET el == EligibleOf(l) IN
    \A i \in 1..Len(el) :
        Partner(i) <= Len(el) => el[i].category = "CURE"

C9_ReachesFixedPoint == <>Stable /\ [](Stable => AllPairsCure(agent_listing))

C9_Witness ==
    /\ Stable
    /\ Len(agent_listing) >= 4
    /\ agent_listing[1].name # NamePool[1]
    /\ Len(InEligible) = 3
    /\ InEligible[3].category # "CURE"

(***************************************************************************)
(* C10: from one listing to the next of a repeated application, every      *)
(* HEALTHY or DEAD agent keeps its category, the number of eligible agents *)
(* does not grow, and the agents that stay eligible keep their relative    *)
(* order.                                                                  *)
(***************************************************************************)
StepKeeps(l, m) ==
    /\ \A i \in DOMAIN l :
          Exempt(l[i]) => \E j \in DOMAIN m : m[j] = l[i]
    /\ Len(EligibleOf(m)) <= Len(EligibleOf(l))
    /\ LET stay == {m[j].name : j \in {k \in DOMAIN m : Eligible(m[k])}}
       IN  NamesOf(EligibleOf(m))
              = NamesOf(SelectSeq(EligibleOf(l), LAMBDA a : a.name \in stay))

C10_ExemptAbsorbing == [][StepKeeps(agent_listing, agent_listing')]_vars

C10_Witness ==
    /\ pc = "ready"
    /\ updated_listing = agent_listing
    /\ Len(InEligible) >= 3
    /\ Len(ExemptOf(agent_listing)) >= 2
    /\ Len(to_meet) > Len(InEligible)
    /\ agent_listing[1].name # NamePool[1]

====
